---- MODULE Spec2Model ----
(***************************************************************************)
(* Model of 1_pandas.py: a straight-line data-cleaning script over one     *)
(* shared table df.  The library calls are modelled with the semantics of  *)
(* the pandas 1.x API the script is written against (DataFrame.append      *)
(* exists, Series.fillna(inplace=True) on df[col] writes through to df).   *)
(*                                                                         *)
(* A cell is <<>> when missing (NaN/None) and <<v>> otherwise.  Numeric    *)
(* cells hold exact fixed-point numbers: the number x is stored as         *)
(* x * Scale, where Scale is divisible by every possible count of          *)
(* non-missing entries and by 2, so that mean and median are exact.        *)
(***************************************************************************)
EXTENDS Integers, Sequences, FiniteSets, TLC

VARIABLES pc, input, df, df_cleaned, df_duplicate, dup_rows,
          df_no_duplicates, failed, call, arg, ret

vars == <<pc, input, df, df_cleaned, df_duplicate, dup_rows,
          df_no_duplicates, failed, call, arg, ret>>

pipeVars == <<pc, input, df, df_cleaned, df_duplicate, dup_rows,
              df_no_duplicates, failed>>

callVars == <<call, arg, ret>>

----------------------------------------------------------------------------
(* Generic helpers *)

RECURSIVE Gcd(_, _)
Gcd(a, b) == IF b = 0 THEN a ELSE Gcd(b, a % b)

RECURSIVE LcmUpTo(_)
LcmUpTo(n) == IF n <= 1 THEN 1 ELSE (LcmUpTo(n - 1) * n) \div Gcd(LcmUpTo(n - 1), n)

RECURSIVE SumSeq(_)
SumSeq(s) == IF s = <<>> THEN 0 ELSE Head(s) + SumSeq(Tail(s))

Range(s) == {s[i] : i \in DOMAIN s}

IndexOf(s, x) == IF \E i \in DOMAIN s : s[i] = x
                 THEN CHOOSE i \in DOMAIN s : s[i] = x /\ \A j \in 1..(i - 1) : s[j] # x
                 ELSE 0

SelectIdx(s, keep) == LET F[i \in 0..Len(s)] ==
                            IF i = 0 THEN <<>>
                            ELSE IF keep[i] THEN Append(F[i - 1], s[i]) ELSE F[i - 1]
                      IN F[Len(s)]

----------------------------------------------------------------------------
(* The literal table of lines 8-13 *)

NaN == <<>>

Names == <<"Alice", "Bob", "Charlie", "David", "Emma">>
Cities == <<"New York", "Los Angeles", "Chicago", "Chicago", "New York">>

NRows == Len(Names)

Scale == 2 * LcmUpTo(NRows)

Num(x) == <<x * Scale>>

AgeLiteral == <<Num(25), NaN, Num(35), Num(40), Num(28)>>
SalaryLiteral == <<Num(50000), Num(60000), Num(70000), Num(80000), NaN>>

StrCol(s) == [i \in DOMAIN s |-> <<s[i]>>]

Table(cols, data, dtypes) == [columns |-> cols, data |-> data, dtypes |-> dtypes]

NoTable == Table(<<>>, <<>>, <<>>)

MakeDf(ages, salaries) ==
    Table(<<"Name", "Age", "City", "Salary">>,
          <<StrCol(Names), ages, StrCol(Cities), salaries>>,
          <<"object", "float64", "object", "float64">>)

LiteralDf == MakeDf(AgeLiteral, SalaryLiteral)

----------------------------------------------------------------------------
(* Table primitives *)

NumRows(t) == IF t.data = <<>> THEN 0 ELSE Len(t.data[1])

HasColumn(t, name) == name \in Range(t.columns)

\* t[name]: the column's cells (the caller checks HasColumn, else KeyError)
GetCol(t, name) == t.data[IndexOf(t.columns, name)]

\* t[name] = col : replace an existing column, else add it at the end
SetCol(t, name, col, dtype) ==
    IF HasColumn(t, name)
    THEN LET k == IndexOf(t.columns, name)
         IN Table(t.columns,
                  [j \in DOMAIN t.data |-> IF j = k THEN col ELSE t.data[j]],
                  [j \in DOMAIN t.dtypes |-> IF j = k THEN dtype ELSE t.dtypes[j]])
    ELSE Table(Append(t.columns, name), Append(t.data, col), Append(t.dtypes, dtype))

RowAt(t, i) == [j \in DOMAIN t.data |-> t.data[j][i]]

Rows(t) == [i \in 1..NumRows(t) |-> RowAt(t, i)]

\* keep the rows whose mask entry is TRUE, in order
SelectRows(t, keep) ==
    Table(t.columns, [j \in DOMAIN t.data |-> SelectIdx(t.data[j], keep)], t.dtypes)

IsNull(c) == c = NaN

NonMissing(col) == SelectIdx(col, [i \in DOMAIN col |-> ~IsNull(col[i])])

Values(col) == [i \in DOMAIN col |-> col[i][1]]

----------------------------------------------------------------------------
(* Series statistics and fillna (lines 28-29) *)

\* a mean that divides by the number of rows, missing ones included
MeanOverAllRows(col) ==
    LET v == Values(NonMissing(col))
    IN IF v = <<>> THEN NaN ELSE <<SumSeq(v) \div Len(col)>>

\* Series.mean(): NaN entries are skipped; NaN when nothing is left
Mean(col) ==
    LET v == Values(NonMissing(col))
    IN IF v = <<>> THEN NaN ELSE <<SumSeq(v) \div Len(v)>>

\* Series.median(): middle order statistic, or the average of the two middle
Median(col) ==
    LET v == SortSeq(Values(NonMissing(col)), LAMBDA a, b : a < b)
        n == Len(v)
    IN IF n = 0 THEN NaN
       ELSE IF n % 2 = 1 THEN <<v[(n + 1) \div 2]>>
       ELSE <<(v[n \div 2] + v[n \div 2 + 1]) \div 2>>

\* a fill that lands on a temporary copy and leaves the column as it was
FillNaOnCopy(col, value) == col

\* Series.fillna(value): a NaN fill value fills nothing
FillNa(col, value) ==
    [i \in DOMAIN col |-> IF IsNull(col[i]) /\ ~IsNull(value) THEN value ELSE col[i]]

\* line 28 on table t
FilledAge(t) ==
    SetCol(t, "Age", FillNa(GetCol(t, "Age"), Mean(GetCol(t, "Age"))), "float64")

\* line 29 on table t
FilledSalary(t) ==
    SetCol(t, "Salary", FillNa(GetCol(t, "Salary"), Median(GetCol(t, "Salary"))), "float64")

\* DataFrame.dropna(): rows with no missing cell
DropNa(t) ==
    SelectRows(t, [i \in 1..NumRows(t) |-> \A j \in DOMAIN t.data : ~IsNull(t.data[j][i])])

----------------------------------------------------------------------------
(* Duplicates (lines 41-45) *)

\* DataFrame.append(row, ignore_index=True)
AppendRow(t, row) ==
    Table(t.columns, [j \in DOMAIN t.data |-> Append(t.data[j], row[j])], t.dtypes)

\* keep='last': marks every occurrence but the last
DuplicatedKeepLast(t) ==
    [i \in 1..NumRows(t) |-> \E k \in (i + 1)..NumRows(t) : RowAt(t, k) = RowAt(t, i)]

\* DataFrame.duplicated(): keep='first' marks every later occurrence
Duplicated(t) ==
    [i \in 1..NumRows(t) |-> \E k \in 1..(i - 1) : RowAt(t, k) = RowAt(t, i)]

\* DataFrame.drop_duplicates() == t[~t.duplicated()]
DropDuplicates(t) ==
    LET d == Duplicated(t) IN SelectRows(t, [i \in DOMAIN d |-> ~d[i]])

----------------------------------------------------------------------------
(* Rename and casts (lines 52-61) *)

\* a rename whose second target is a name the table already has
RenameMapClash(name) ==
    CASE name = "Name" -> "Employee Name"
      [] name = "Salary" -> "City"
      [] OTHER -> name

RenameMap(name) ==
    CASE name = "Name" -> "Employee Name"
      [] name = "Salary" -> "Annual Salary"
      [] OTHER -> name

\* DataFrame.rename(columns=..., inplace=True): absent keys are ignored
Rename(t) == Table([j \in DOMAIN t.columns |-> RenameMap(t.columns[j])], t.data, t.dtypes)

\* float -> int truncates toward zero
Trunc(x) == IF x >= 0 THEN (x \div Scale) * Scale ELSE -(((-x) \div Scale) * Scale)

\* Series.astype(int) raises on a missing value
CanAstypeInt(col) == \A i \in DOMAIN col : ~IsNull(col[i])

AstypeInt(col) == [i \in DOMAIN col |-> <<Trunc(col[i][1])>>]

AstypeFloat(col) == col

\* line 60 on table t
AgeAsInt(t) == SetCol(t, "Age", AstypeInt(GetCol(t, "Age")), "int64")

----------------------------------------------------------------------------
(* The script: one action per statement, pc is the statement to run next.  *)
(* An exception is never caught (the script has no try block): the raising *)
(* statement records itself in failed and the run ends at pc = "error".    *)

AgeDomain == {c \in Range(AgeLiteral) : ~IsNull(c)}
SalaryDomain == {c \in Range(SalaryLiteral) : ~IsNull(c)}

\* Input tables: the literal table, with either numeric column replaced by any
\* column over the literal's values and the missing marker.
Inputs ==
    {MakeDf(a, SalaryLiteral) : a \in [1..NRows -> AgeDomain \cup {NaN}]}
    \cup {MakeDf(AgeLiteral, s) : s \in [1..NRows -> SalaryDomain \cup {NaN}]}

\* the statements in file order; control only ever moves to the next one
Program == <<"fill_age", "fill_salary", "dropna", "append", "duplicated",
             "drop_duplicates", "rename", "cast_age", "cast_salary", "filter">>

After(stmt) == Program[IndexOf(Program, stmt) + 1]

Idle == call = "idle" /\ arg = <<>> /\ ret = <<>>

Init ==
    /\ input \in Inputs
    /\ df = input
    /\ pc = "fill_age"
    /\ df_cleaned = NoTable
    /\ df_duplicate = NoTable
    /\ dup_rows = <<>>
    /\ df_no_duplicates = NoTable
    /\ failed = "none"
    /\ Idle

\* an exception that is swallowed: the run goes on with the next statement
RaiseAndContinue(stmt) ==
    /\ pc' = After(stmt)
    /\ failed' = stmt
    /\ UNCHANGED <<input, df, df_cleaned, df_duplicate, dup_rows, df_no_duplicates>>
    /\ UNCHANGED callVars

\* an unhandled exception in statement stmt
Raise(stmt) ==
    /\ pc' = "error"
    /\ failed' = stmt
    /\ UNCHANGED <<input, df, df_cleaned, df_duplicate, dup_rows, df_no_duplicates>>
    /\ UNCHANGED callVars

\* line 28: df["Age"].fillna(df["Age"].mean(), inplace=True)
FillAge ==
    /\ pc = "fill_age"
    /\ IF HasColumn(df, "Age")
       THEN /\ df' = FilledAge(df)
            /\ pc' = After("fill_age")
            /\ UNCHANGED <<input, df_cleaned, df_duplicate, dup_rows, df_no_duplicates,
                           failed>>
            /\ UNCHANGED callVars
       ELSE Raise("fill_age")

\* line 29: df["Salary"].fillna(df["Salary"].median(), inplace=True)
FillSalary ==
    /\ pc = "fill_salary"
    /\ IF HasColumn(df, "Salary")
       THEN /\ df' = FilledSalary(df)
            /\ pc' = After("fill_salary")
            /\ UNCHANGED <<input, df_cleaned, df_duplicate, dup_rows, df_no_duplicates,
                           failed>>
            /\ UNCHANGED callVars
       ELSE Raise("fill_salary")

\* df.dropna(inplace=True): the shared table loses the rows, nothing is returned
DropMissingInPlace ==
    /\ pc = "dropna"
    /\ df' = DropNa(df)
    /\ df_cleaned' = NoTable
    /\ pc' = After("dropna")
    /\ UNCHANGED <<input, df_duplicate, dup_rows, df_no_duplicates, failed>>
    /\ UNCHANGED callVars

\* line 33: df_cleaned = df.dropna()
DropMissing ==
    /\ pc = "dropna"
    /\ df_cleaned' = DropNa(df)
    /\ pc' = After("dropna")
    /\ UNCHANGED <<input, df, df_duplicate, dup_rows, df_no_duplicates, failed>>
    /\ UNCHANGED callVars

\* line 41: df_duplicate = df.append(df.iloc[1], ignore_index=True)
AppendDuplicate ==
    /\ pc = "append"
    /\ IF NumRows(df) >= 2
       THEN /\ df_duplicate' = AppendRow(df, RowAt(df, 2))
            /\ pc' = After("append")
            /\ UNCHANGED <<input, df, df_cleaned, dup_rows, df_no_duplicates, failed>>
            /\ UNCHANGED callVars
       ELSE Raise("append")

\* line 42: df_duplicate[df_duplicate.duplicated()] (positions of the rows shown)
ShowDuplicates ==
    /\ pc = "duplicated"
    /\ dup_rows' = LET d == Duplicated(df_duplicate)
                   IN SelectIdx([i \in DOMAIN d |-> i], d)
    /\ pc' = After("duplicated")
    /\ UNCHANGED <<input, df, df_cleaned, df_duplicate, df_no_duplicates, failed>>
    /\ UNCHANGED callVars

\* line 44: df_no_duplicates = df_duplicate.drop_duplicates()
RemoveDuplicates ==
    /\ pc = "drop_duplicates"
    /\ df_no_duplicates' = DropDuplicates(df_duplicate)
    /\ pc' = After("drop_duplicates")
    /\ UNCHANGED <<input, df, df_cleaned, df_duplicate, dup_rows, failed>>
    /\ UNCHANGED callVars

\* line 52: df.rename(columns={...}, inplace=True)
RenameColumns ==
    /\ pc = "rename"
    /\ df' = Rename(df)
    /\ pc' = After("rename")
    /\ UNCHANGED <<input, df_cleaned, df_duplicate, dup_rows, df_no_duplicates, failed>>
    /\ UNCHANGED callVars

\* line 60: df["Age"] = df["Age"].astype(int)
CastAge ==
    /\ pc = "cast_age"
    /\ IF HasColumn(df, "Age") /\ CanAstypeInt(GetCol(df, "Age"))
       THEN /\ df' = AgeAsInt(df)
            /\ pc' = After("cast_age")
            /\ UNCHANGED <<input, df_cleaned, df_duplicate, dup_rows, df_no_duplicates,
                           failed>>
            /\ UNCHANGED callVars
       ELSE Raise("cast_age")

\* line 61: df["Salary"] = df["Salary"].astype(float)
CastSalary ==
    /\ pc = "cast_salary"
    /\ IF HasColumn(df, "Salary")
       THEN /\ df' = SetCol(df, "Salary", AstypeFloat(GetCol(df, "Salary")), "float64")
            /\ pc' = After("cast_salary")
            /\ UNCHANGED <<input, df_cleaned, df_duplicate, dup_rows, df_no_duplicates,
                           failed>>
            /\ UNCHANGED callVars
       ELSE Raise("cast_salary")

Next ==
    \/ FillAge
    \/ FillSalary
    \/ DropMissing
    \/ AppendDuplicate
    \/ ShowDuplicates
    \/ RemoveDuplicates
    \/ RenameColumns
    \/ CastAge
    \/ CastSalary

Spec == Init /\ [][Next]_vars

----------------------------------------------------------------------------
(* Column-adding statements after line 61 (lines 77, 85, 95, 151, 152), as *)
(* functions of the table they are applied to.                             *)

\* line 77: df["Annual Salary"].apply(lambda x: x * 0.8)
AfterTax(col) == [i \in DOMAIN col |-> IF IsNull(col[i]) THEN NaN ELSE <<(col[i][1] * 8) \div 10>>]

AddSalaryAfterTax(t) ==
    SetCol(t, "Salary After Tax", AfterTax(GetCol(t, "Annual Salary")), "float64")

\* the City values of line 11 in lexicographic order
SortedCities == <<"Chicago", "Los Angeles", "New York">>

\* line 85: astype("category").cat.codes: the categories are the values present,
\* sorted; a value's code is its 0-based position among them, -1 when missing
CatCodes(col) ==
    LET categories == SelectIdx(SortedCities,
                                [k \in DOMAIN SortedCities |-> <<SortedCities[k]>> \in Range(col)])
    IN [i \in DOMAIN col |->
          IF IsNull(col[i]) THEN <<-1>> ELSE <<IndexOf(categories, col[i][1]) - 1>>]

AddCityCode(t) == SetCol(t, "City Code", CatCodes(GetCol(t, "City")), "int8")

\* lines 93-94
bins == <<0, 25, 35, 50>>
labels == <<"Young", "Adult", "Senior">>

\* numpy searchsorted(side="left"): how many boundaries lie strictly below x
SearchSortedLeft(b, x) == Cardinality({k \in DOMAIN b : b[k] * Scale < x})

\* numpy searchsorted(side="right"), which pd.cut uses when right=False:
\* how many boundaries are <= x
SearchSortedRight(b, x) == Cardinality({k \in DOMAIN b : b[k] * Scale <= x})

\* line 95: pd.cut(..., right=False): position 0 or len(bins) is out of range
CutLabel(x) ==
    LET ids == SearchSortedRight(bins, x)
    IN IF ids = 0 \/ ids = Len(bins) THEN NaN ELSE <<labels[ids]>>

Cut(col) == [i \in DOMAIN col |-> IF IsNull(col[i]) THEN NaN ELSE CutLabel(col[i][1])]

AddAgeGroup(t) == SetCol(t, "Age Group", Cut(GetCol(t, "Age")), "category")

\* line 151: the date strings, character by character
JoinDates ==
    << <<"2","0","2","3","-","0","1","-","1","5">>,
       <<"2","0","2","2","-","0","6","-","1","0">>,
       <<"2","0","2","1","-","1","2","-","0","5">>,
       <<"2","0","2","0","-","0","3","-","2","2">>,
       <<"2","0","1","9","-","0","7","-","1","0">> >>

Digits == <<"0", "1", "2", "3", "4", "5", "6", "7", "8", "9">>

IsDigit(c) == c \in Range(Digits)

DigitValue(c) == IndexOf(Digits, c) - 1

RECURSIVE Number(_)
Number(cs) == IF cs = <<>> THEN 0
              ELSE Number(SubSeq(cs, 1, Len(cs) - 1)) * 10 + DigitValue(cs[Len(cs)])

DaysIn(y, m) ==
    IF m = 2 THEN (IF (y % 4 = 0 /\ y % 100 # 0) \/ y % 400 = 0 THEN 29 ELSE 28)
    ELSE IF m \in {4, 6, 9, 11} THEN 30 ELSE 31

\* pd.to_datetime on a YYYY-MM-DD string
IsIsoDate(cs) ==
    /\ Len(cs) = 10
    /\ cs[5] = "-" /\ cs[8] = "-"
    /\ \A k \in {1, 2, 3, 4, 6, 7, 9, 10} : IsDigit(cs[k])
    /\ Number(SubSeq(cs, 6, 7)) \in 1..12
    /\ Number(SubSeq(cs, 9, 10)) \in 1..DaysIn(Number(SubSeq(cs, 1, 4)), Number(SubSeq(cs, 6, 7)))

ToDatetime(cs) ==
    [year |-> Number(SubSeq(cs, 1, 4)), month |-> Number(SubSeq(cs, 6, 7)),
     day |-> Number(SubSeq(cs, 9, 10))]

\* line 151: assigning a list to a column requires one value per row
CanAddJoinDate(t) ==
    /\ Len(JoinDates) = NumRows(t)
    /\ \A k \in DOMAIN JoinDates : IsIsoDate(JoinDates[k])

AddJoinDate(t) ==
    SetCol(t, "Join Date", [k \in DOMAIN JoinDates |-> <<ToDatetime(JoinDates[k])>>],
           "datetime64[ns]")

\* line 152: df["Join Date"].dt.year
AddYearJoined(t) ==
    SetCol(t, "Year Joined",
           LET d == GetCol(t, "Join Date")
           IN [i \in DOMAIN d |-> IF IsNull(d[i]) THEN NaN ELSE <<d[i][1].year>>],
           "int64")

\* the tables after lines 77, 85, 95, 151 and 152, applied in that order to t
DerivedTables(t) ==
    LET t1 == AddSalaryAfterTax(t)
        t2 == AddCityCode(t1)
        t3 == AddAgeGroup(t2)
        t4 == AddJoinDate(t3)
        t5 == AddYearJoined(t4)
    IN <<t, t1, t2, t3, t4, t5>>

----------------------------------------------------------------------------
(* The functions of the script exercised on their own: the script's own    *)
(* variables are not in play then.                                         *)

PipeOff ==
    /\ pc = "off"
    /\ input = NoTable
    /\ df = NoTable
    /\ df_cleaned = NoTable
    /\ df_duplicate = NoTable
    /\ dup_rows = <<>>
    /\ df_no_duplicates = NoTable
    /\ failed = "none"

----------------------------------------------------------------------------
(* Binning (line 95) as a function of the Age column *)

\* ages are drawn from CutMargin below the first boundary to CutMargin above
\* the last
CutMargin == 5

CutMinAge == bins[1] - CutMargin
CutMaxAge == bins[Len(bins)] + CutMargin

FilledLiteralAges == FillNa(AgeLiteral, Mean(AgeLiteral))

CutColumns ==
    {<<Num(v)>> : v \in CutMinAge..CutMaxAge} \cup {<<NaN>>, FilledLiteralAges}

CutInit ==
    /\ PipeOff
    /\ call = "cut"
    /\ arg \in CutColumns
    /\ ret = <<>>

ApplyCut ==
    /\ call = "cut"
    /\ ret' = Cut(arg)
    /\ call' = "cut_done"
    /\ UNCHANGED <<arg, pipeVars>>

CutNext == ApplyCut

CutSpec == CutInit /\ [][CutNext]_vars

\* the intervals [bins[k], bins[k+1]) that contain x
IntervalsOf(x) ==
    {k \in 1..(Len(bins) - 1) : bins[k] * Scale <= x /\ x < bins[k + 1] * Scale}

\* C7: every Age value gets the label of the one half-open interval
\* [bins[k], bins[k+1]) containing it, and a missing label when there is none
\* (below 0 or at least 50); [25,32,35,40,28] gives
\* [Adult,Adult,Senior,Senior,Adult].
C7_CutHalfOpen ==
    call = "cut_done" =>
        /\ \A i \in DOMAIN arg :
              ~IsNull(arg[i]) =>
                 LET x == arg[i][1] IN
                 /\ Cardinality(IntervalsOf(x)) <= 1
                 /\ \A k \in IntervalsOf(x) : ret[i] = <<labels[k]>>
                 /\ IntervalsOf(x) = {} =>
                       (IsNull(ret[i]) /\ (x < 0 \/ x >= 50 * Scale))
                 /\ IsNull(ret[i]) => IntervalsOf(x) = {}
        /\ arg = <<Num(25), Num(32), Num(35), Num(40), Num(28)>> =>
              ret = << <<"Adult">>, <<"Adult">>, <<"Senior">>, <<"Senior">>, <<"Adult">> >>

C7_Witness ==
    /\ call = "cut_done"
    /\ arg = <<Num(25), Num(32), Num(35), Num(40), Num(28)>>
    /\ ret[1] = <<"Adult">>

C7_WitnessOutOfRange == call = "cut_done" /\ arg = <<Num(50)>> /\ IsNull(ret[1])

----------------------------------------------------------------------------
(* Duplicate handling (lines 41-45) as functions of an arbitrary table *)

MaxDedupRows == 3

DedupRowValues ==
    {<<<<n>>, a>> : n \in {"Alice", "Bob"}, a \in {Num(25), NaN}}

FromRows(cols, dtypes, rows) ==
    Table(cols, [j \in DOMAIN cols |-> [i \in DOMAIN rows |-> rows[i][j]]], dtypes)

DedupTables ==
    {FromRows(<<"Name", "Age">>, <<"object", "float64">>, rows) :
        rows \in UNION {[1..n -> DedupRowValues] : n \in 0..MaxDedupRows}}

DedupInit ==
    /\ PipeOff
    /\ call = "dedup"
    /\ \E b \in DedupTables : arg = [base |-> b, t |-> b, appended |-> FALSE]
    /\ ret = <<>>

\* line 41 with any row position: t.append(t.iloc[i], ignore_index=True)
AppendCopy ==
    /\ call = "dedup"
    /\ \E i \in 1..NumRows(arg.t) :
          arg' = [arg EXCEPT !.t = AppendRow(arg.t, RowAt(arg.t, i)), !.appended = TRUE]
    /\ call' = "dedup_appended"
    /\ UNCHANGED <<ret, pipeVars>>

\* line 42
MarkDuplicates ==
    /\ call \in {"dedup", "dedup_appended"}
    /\ ret' = [mask |-> Duplicated(arg.t)]
    /\ call' = "marked"
    /\ UNCHANGED <<arg, pipeVars>>

\* line 44
DropOnce ==
    /\ call = "marked"
    /\ ret' = [mask |-> ret.mask, once |-> DropDuplicates(arg.t)]
    /\ call' = "dropped"
    /\ UNCHANGED <<arg, pipeVars>>

\* drop_duplicates applied to its own result
DropTwice ==
    /\ call = "dropped"
    /\ ret' = [mask |-> ret.mask, once |-> ret.once, twice |-> DropDuplicates(ret.once)]
    /\ call' = "dropped_twice"
    /\ UNCHANGED <<arg, pipeVars>>

DedupNext == AppendCopy \/ MarkDuplicates \/ DropOnce \/ DropTwice

DedupSpec == DedupInit /\ [][DedupNext]_vars

NoRepeats(s) == \A p, q \in DOMAIN s : s[p] = s[q] => p = q

\* C6: drop_duplicates keeps exactly the first occurrence of every distinct row,
\* in the original order, and applied to its own output returns it unchanged;
\* when one copy of a row is appended to a duplicate-free table, the rows
\* reported as duplicates are exactly the appended row and the deduplicated
\* table is the table before the append.
C6_DedupKeepsFirst ==
    /\ call \in {"dropped", "dropped_twice"} =>
          LET rin == Rows(arg.t)
              rout == Rows(ret.once)
          IN /\ NoRepeats(rout)
             /\ Range(rout) = Range(rin)
             /\ \A p, q \in DOMAIN rout :
                   p < q => IndexOf(rin, rout[p]) < IndexOf(rin, rout[q])
             /\ ret.once.columns = arg.t.columns
    /\ call = "dropped_twice" => ret.twice = ret.once
    /\ (call \in {"marked", "dropped", "dropped_twice"}
          /\ arg.appended /\ NoRepeats(Rows(arg.base))) =>
          /\ {i \in DOMAIN ret.mask : ret.mask[i]} = {NumRows(arg.t)}
          /\ call # "marked" => ret.once = arg.base

C6_Witness ==
    /\ call = "dropped_twice"
    /\ arg.appended
    /\ NoRepeats(Rows(arg.base))
    /\ NumRows(arg.base) >= 2
    /\ ret.once = arg.base

C6_WitnessRepeats ==
    /\ call = "dropped_twice"
    /\ ~NoRepeats(Rows(arg.base))
    /\ NumRows(ret.once) >= 2

----------------------------------------------------------------------------
(* Left join (lines 103-107) as a function of the two tables *)

\* lines 103-106
extra_data ==
    Table(<<"Employee Name", "Department">>,
          <<StrCol(<<"Alice", "Bob", "Charlie">>), StrCol(<<"HR", "IT", "Finance">>)>>,
          <<"object", "object">>)

\* positions of the right rows whose key equals key, in right order
Matches(right, on, key) ==
    LET rk == GetCol(right, on)
    IN SelectIdx([k \in DOMAIN rk |-> k], [k \in DOMAIN rk |-> rk[k] = key])

\* how="inner": left rows without a match are dropped
JoinPairsInner(left, right, on) ==
    LET lk == GetCol(left, on)
        F[i \in 0..Len(lk)] ==
            IF i = 0 THEN <<>>
            ELSE LET m == Matches(right, on, lk[i])
                 IN F[i - 1] \o [x \in DOMAIN m |-> <<i, m[x]>>]
    IN F[Len(lk)]

\* how="left": the (left row, right row) pairs of the result, in left order;
\* right row 0 stands for "no match"
JoinPairs(left, right, on) ==
    LET lk == GetCol(left, on)
        F[i \in 0..Len(lk)] ==
            IF i = 0 THEN <<>>
            ELSE LET m == Matches(right, on, lk[i])
                 IN F[i - 1] \o (IF m = <<>> THEN << <<i, 0>> >>
                                 ELSE [x \in DOMAIN m |-> <<i, m[x]>>])
    IN F[Len(lk)]

\* pd.merge(left, right, on=on, how="left"): the left columns followed by the
\* right table's other columns
Merge(left, right, on) ==
    LET pairs == JoinPairs(left, right, on)
        nl == Len(left.columns)
        others == SelectIdx([j \in DOMAIN right.columns |-> j],
                            [j \in DOMAIN right.columns |-> right.columns[j] # on])
    IN Table(left.columns \o [x \in DOMAIN others |-> right.columns[others[x]]],
             [j \in 1..(nl + Len(others)) |->
                [p \in DOMAIN pairs |->
                   IF j <= nl THEN left.data[j][pairs[p][1]]
                   ELSE IF pairs[p][2] = 0 THEN NaN
                   ELSE right.data[others[j - nl]][pairs[p][2]]]],
             left.dtypes \o [x \in DOMAIN others |-> right.dtypes[others[x]]])

MaxLeftRows == 2
MaxRightRows == 2

LeftRowValues == {<<<<n>>, a>> : n \in {"Alice", "Bob"}, a \in {Num(25), Num(40)}}
RightRowValues == {<<<<n>>, <<d>>>> : n \in {"Alice", "Bob", "Zed"}, d \in {"HR", "IT"}}

LeftTables ==
    {FromRows(<<"Employee Name", "Age">>, <<"object", "int64">>, rows) :
        rows \in UNION {[1..n -> LeftRowValues] : n \in 0..MaxLeftRows}}

RightTables ==
    {FromRows(<<"Employee Name", "Department">>, <<"object", "object">>, rows) :
        rows \in UNION {[1..n -> RightRowValues] : n \in 0..MaxRightRows}}

\* the shared table as line 107 would receive it from the literal input
LiteralLeft == DerivedTables(AgeAsInt(Rename(FilledSalary(FilledAge(LiteralDf)))))[4]

MergeInit ==
    /\ PipeOff
    /\ call = "merge"
    /\ \/ \E l \in LeftTables, r \in RightTables : arg = [left |-> l, right |-> r]
       \/ arg = [left |-> LiteralLeft, right |-> extra_data]
    /\ ret = <<>>

\* line 107
ApplyMerge ==
    /\ call = "merge"
    /\ ret' = Merge(arg.left, arg.right, "Employee Name")
    /\ call' = "merged"
    /\ UNCHANGED <<arg, pipeVars>>

MergeNext == ApplyMerge

MergeSpec == MergeInit /\ [][MergeNext]_vars

Count(s, x) == Cardinality({i \in DOMAIN s : s[i] = x})

RECURSIVE Repeat(_, _)
Repeat(x, n) == IF n = 0 THEN <<>> ELSE <<x>> \o Repeat(x, n - 1)

\* number of right rows whose key equals the key of left row i
FanOut(left, right, i) ==
    Cardinality({k \in 1..NumRows(right) :
                    GetCol(right, "Employee Name")[k] = GetCol(left, "Employee Name")[i]})

RECURSIVE ExpectedLeftParts(_, _, _)
ExpectedLeftParts(left, right, i) ==
    IF i = 0 THEN <<>>
    ELSE ExpectedLeftParts(left, right, i - 1)
         \o Repeat(RowAt(left, i),
                   IF FanOut(left, right, i) = 0 THEN 1 ELSE FanOut(left, right, i))

\* C8: in the left join a left row with k matching right rows appears exactly k
\* times, once with a missing Department when k = 0; left rows keep their
\* order; every attached Department comes from a right row with the same key,
\* each match attached once; right rows matching no left row contribute
\* nothing.  The script's tables give five rows, Department HR, IT, Finance for
\* Alice, Bob, Charlie and missing for David and Emma.
C8_LeftJoinFanOut ==
    call = "merged" =>
        LET nl == Len(arg.left.columns)
            out == Rows(ret)
            leftPart == [p \in DOMAIN out |-> SubSeq(out[p], 1, nl)]
            lrows == Rows(arg.left)
            rrows == Rows(arg.right)
        IN /\ leftPart = ExpectedLeftParts(arg.left, arg.right, NumRows(arg.left))
           /\ ret.columns = arg.left.columns \o <<"Department">>
           /\ \A p \in DOMAIN out :
                 LET key == out[p][IndexOf(ret.columns, "Employee Name")]
                     dept == out[p][nl + 1]
                 IN IF IsNull(dept)
                    THEN \A k \in DOMAIN rrows : rrows[k][1] # key
                    ELSE Count(out, out[p]) =
                            Count(lrows, leftPart[p]) * Count(rrows, <<key, dept>>)
           /\ (arg.left = LiteralLeft /\ arg.right = extra_data) =>
                 /\ NumRows(ret) = NumRows(arg.left)
                 /\ GetCol(ret, "Employee Name") = StrCol(Names)
                 /\ GetCol(ret, "Department") =
                       << <<"HR">>, <<"IT">>, <<"Finance">>, NaN, NaN >>

C8_Witness ==
    /\ call = "merged"
    /\ arg.left = LiteralLeft
    /\ arg.right = extra_data
    /\ NumRows(ret) = 5

C8_WitnessFanOut ==
    /\ call = "merged"
    /\ NumRows(arg.left) = 2
    /\ FanOut(arg.left, arg.right, 1) = 2
    /\ FanOut(arg.left, arg.right, 2) = 0
    /\ NumRows(ret) = 3

----------------------------------------------------------------------------
(* Outlier replacement (lines 134-143) as a function of the salary column. *)
(* The statements lie after line 61; they are exercised on columns drawn   *)
(* from a bounded set.                                                     *)

Sorted(col) == SortSeq(Values(NonMissing(col)), LAMBDA a, b : a < b)

\* Series.quantile(num/4), default linear interpolation between the order
\* statistics around position (n-1)*num/4 (0-based)
Quantile(col, num) ==
    LET v == Sorted(col)
        n == Len(v)
        lo == ((n - 1) * num) \div 4
        r == ((n - 1) * num) % 4
        hi == IF lo + 2 <= n THEN lo + 2 ELSE n
    IN v[lo + 1] + ((v[hi] - v[lo + 1]) * r) \div 4

Q1(col) == Quantile(col, 1)
Q3(col) == Quantile(col, 3)
IQR(col) == Q3(col) - Q1(col)

\* line 137: x < Q1 - 1.5*IQR  or  x > Q3 + 1.5*IQR  (both sides doubled)
IsOutlier(x, q1, q3) ==
    \/ 2 * x < 2 * q1 - 3 * (q3 - q1)
    \/ 2 * x > 2 * q3 + 3 * (q3 - q1)

OutlierCondition(col) ==
    [i \in DOMAIN col |-> ~IsNull(col[i]) /\ IsOutlier(col[i][1], Q1(col), Q3(col))]

\* replacement by the mean instead of the median
ReplaceOutliersWithMean(col) ==
    LET cond == OutlierCondition(col)
    IN [i \in DOMAIN col |-> IF cond[i] THEN Mean(col) ELSE col[i]]

\* lines 142-143: df.loc[outlier_condition, "Annual Salary"] = median_salary
ReplaceOutliers(col) ==
    LET cond == OutlierCondition(col)
        median_salary == Median(col)
    IN [i \in DOMAIN col |-> IF cond[i] THEN median_salary ELSE col[i]]

MaxOutlierRows == 5
MaxOutlierValue == 4

OutlierColumns ==
    UNION {[1..n -> {Num(x) : x \in 0..MaxOutlierValue}] : n \in 1..MaxOutlierRows}

OutlierInit ==
    /\ PipeOff
    /\ call = "outlier"
    /\ arg \in OutlierColumns
    /\ ret = <<>>

\* lines 134-137 and 139: the flagged rows of the column as given
DetectOutliers ==
    /\ call = "outlier"
    /\ ret' = [flags |-> OutlierCondition(arg)]
    /\ call' = "detected"
    /\ UNCHANGED <<arg, pipeVars>>

\* lines 142-143
ReplaceDetected ==
    /\ call = "detected"
    /\ ret' = [flags |-> ret.flags, replaced |-> ReplaceOutliers(arg)]
    /\ call' = "replaced"
    /\ UNCHANGED <<arg, pipeVars>>

\* detection run again on the column after replacement
DetectAgain ==
    /\ call = "replaced"
    /\ ret' = [flags |-> ret.flags, replaced |-> ret.replaced,
               again |-> OutlierCondition(ret.replaced)]
    /\ call' = "redetected"
    /\ UNCHANGED <<arg, pipeVars>>

OutlierNext == DetectOutliers \/ ReplaceDetected \/ DetectAgain

OutlierSpec == OutlierInit /\ [][OutlierNext]_vars

AnyFlag(flags) == \E i \in DOMAIN flags : flags[i]

\* C5, first reading: re-running detection after the replacement flags no row, for
\* every column whose distribution is non-degenerate (positive IQR, before and
\* after the replacement).
C5_RedetectionEmpty ==
    (call = "redetected" /\ IQR(arg) > 0 /\ IQR(ret.replaced) > 0) => ~AnyFlag(ret.again)

\* C5, second reading: re-running detection after the replacement flags none of the
\* rows that were replaced; rows that were kept may become flagged.
C5_ReplacedNotFlagged ==
    call = "redetected" =>
        \A i \in DOMAIN arg : ret.flags[i] => ~ret.again[i]

C5_Witness ==
    /\ call = "redetected"
    /\ AnyFlag(ret.flags)
    /\ AnyFlag(ret.again)
    /\ IQR(arg) > 0

----------------------------------------------------------------------------
(* Properties of the script *)

InputAge == GetCol(input, "Age")
InputSalary == GetCol(input, "Salary")

HasValue(col) == \E i \in DOMAIN col : ~IsNull(col[i])

\* C1: run on the literal table, no statement fails (so the run can go on to
\* the statements that write cleaned_data.csv and cleaned_data.pkl).
C1_LiteralRunNeverFails == input = LiteralDf => failed = "none"

ColumnsDistinct(t) ==
    \A j, k \in DOMAIN t.columns : t.columns[j] = t.columns[k] => j = k

WellFormed(t) ==
    /\ ColumnsDistinct(t)
    /\ Len(t.data) = Len(t.columns)
    /\ Len(t.dtypes) = Len(t.columns)
    /\ \A j \in DOMAIN t.data : Len(t.data[j]) = NRows

\* C2: in every state the shared table's column names are pairwise distinct,
\* every column has as many cells as the table has rows, and the row count is
\* the one the table was built with; each column-adding statement (Salary
\* After Tax, City Code, Age Group, Join Date, Year Joined), applied to the
\* table the script holds after the casts of line 60, adds one column of that
\* length under a new name.
C2_TableWellFormed ==
    /\ WellFormed(df)
    /\ NumRows(df) = NumRows(input)
    /\ pc = "cast_salary" =>
          LET ts == DerivedTables(df)
          IN /\ CanAddJoinDate(ts[4])
             /\ \A k \in 2..Len(ts) :
                   /\ WellFormed(ts[k])
                   /\ Len(ts[k].columns) = Len(ts[k - 1].columns) + 1
                   /\ SubSeq(ts[k].columns, 1, Len(ts[k - 1].columns)) = ts[k - 1].columns

C2_Witness ==
    /\ pc = "cast_salary"
    /\ df.columns = <<"Employee Name", "Age", "City", "Annual Salary">>
    /\ df.dtypes[2] = "int64"

\* the statements between the two fills and the rename
AfterFill == pc \in {"dropna", "append", "duplicated", "drop_duplicates", "rename"}

CountIf(col, P(_)) == Cardinality({i \in DOMAIN col : ~IsNull(col[i]) /\ P(col[i][1])})

\* x is the k-th smallest of the non-missing entries of col
IsKth(col, x, k) ==
    /\ CountIf(col, LAMBDA y : y < x) < k
    /\ k <= CountIf(col, LAMBDA y : y <= x)

IsMeanOf(col, m) ==
    m * CountIf(col, LAMBDA y : TRUE) = SumSeq(Values(NonMissing(col)))

IsMedianOf(col, m) ==
    LET n == CountIf(col, LAMBDA y : TRUE)
    IN \E a, b \in {c[1] : c \in Range(col) \ {NaN}} :
          /\ IsKth(col, a, (n + 1) \div 2)
          /\ IsKth(col, b, n \div 2 + 1)
          /\ 2 * m = a + b

\* before holds the column as built, after the column once filled
FilledWith(before, after, IsStat(_, _)) ==
    \A i \in DOMAIN before :
        /\ ~IsNull(after[i])
        /\ ~IsNull(before[i]) => after[i] = before[i]
        /\ IsNull(before[i]) => IsStat(before, after[i][1])

\* C3: after the fill statements, a column that had a non-missing entry has no
\* missing entry, its non-missing entries are unchanged, and each missing entry
\* is the mean (Age) or median (Salary) of the entries that were non-missing;
\* the literal table gives Age=[25,32,35,40,28] and
\* Salary=[50000,60000,70000,80000,65000].
C3_FillCorrect ==
    AfterFill =>
        /\ HasValue(InputAge) => FilledWith(InputAge, GetCol(df, "Age"), IsMeanOf)
        /\ HasValue(InputSalary) => FilledWith(InputSalary, GetCol(df, "Salary"), IsMedianOf)
        /\ input = LiteralDf =>
              /\ GetCol(df, "Age") = <<Num(25), Num(32), Num(35), Num(40), Num(28)>>
              /\ GetCol(df, "Salary") =
                    <<Num(50000), Num(60000), Num(70000), Num(80000), Num(65000)>>

C3_Witness ==
    /\ pc = "dropna"
    /\ input = LiteralDf
    /\ GetCol(df, "Age")[2] = Num(32)
    /\ GetCol(df, "Salary")[5] = Num(65000)

AgeDtype == df.dtypes[IndexOf(df.columns, "Age")]

\* C4: when the integer cast of Age runs on a table whose Age column had a
\* non-missing entry, the column holds no missing value and the cast succeeds;
\* when every Age entry was missing the cast raises: the run ends in the error
\* state and Age never becomes an integer column.
C4_CastAgeSafe ==
    /\ (pc = "cast_age" /\ HasValue(InputAge)) => CanAstypeInt(GetCol(df, "Age"))
    /\ failed = "cast_age" <=> (pc = "error" /\ ~HasValue(InputAge))
    /\ pc \in {"cast_salary", "filter"} => HasValue(InputAge)
    /\ AgeDtype = "int64" => HasValue(InputAge)

C4_Witness ==
    /\ pc = "cast_salary"
    /\ AgeDtype = "int64"
    /\ \E i \in DOMAIN InputAge : IsNull(InputAge[i])

C4_WitnessAllMissing == failed = "cast_age" /\ ~HasValue(InputAge)

\* C9: once a statement has failed the run is in the error state, where no
\* statement executes and nothing changes any more; in particular control never
\* reaches a later statement (the ones writing the two files included).
C9_FailFast ==
    /\ [](failed # "none" => pc = "error")
    /\ [][(pc = "error") => UNCHANGED vars]_vars
    /\ [][(failed # "none") => (failed' = failed)]_vars

C9_Witness == pc = "error" /\ failed = "cast_age"

====
